---- MODULE Spec2Model ----
(***************************************************************************)
(* Model of the Quoridor rule engine of occams_council:                   *)
(*   engine/state.py  (Position, Wall, Move, GameState)                    *)
(*   engine/rules.py  (blocked-edge map, pawn and wall move generation,    *)
(*                     apply_move, connectivity check)                     *)
(* Player indices, rows and columns are 0-based as in the source.          *)
(***************************************************************************)
EXTENDS Integers, Naturals, Sequences, FiniteSets, TLC

VARIABLES state

vars == <<state>>

----------------------------------------------------------------------------
(* engine/state.py: constants and value types *)

BOARD_SIZE == 9

MAX_WALLS_PER_PLAYER == 10

TOTAL_SHARED_WALLS == MAX_WALLS_PER_PLAYER * 2

\* Python's None for the optional winner field.
None == -1

\* Python's None for the optional payloads of a Move.
NoPosition == [row |-> -1, col |-> -1]

NoWall == <<-1, -1, FALSE>>

Position(r, c) == [row |-> r, col |-> c]

\* Wall.key(): (row, col, horizontal)
WallKey(r, c, horizontal) == <<r, c, horizontal>>

Move(kind, to, wall) == [kind |-> kind, to |-> to, wall |-> wall]

PawnMove(r, c) == Move("pawn", Position(r, c), NoWall)

WallMove(w) == Move("wall", NoPosition, w)

GameState(pawns, walls, remaining, current, winner, n) ==
    [pawns |-> pawns, walls |-> walls, shared_walls_remaining |-> remaining,
     current_player |-> current, winner |-> winner, num_players |-> n]

\* The outcome of a new_game call that raises ValueError: no state exists.
ValueError == [error |-> "ValueError"]

\* new_game that builds the 4-pawn layout for any player count but 2.
new_game_accepting_any(num_players) ==
    LET mid == BOARD_SIZE \div 2
        pawns == IF num_players = 2
                 THEN (0 :> Position(0, mid)) @@ (1 :> Position(BOARD_SIZE - 1, mid))
                 ELSE (0 :> Position(0, mid)) @@ (1 :> Position(mid, BOARD_SIZE - 1))
                      @@ (2 :> Position(BOARD_SIZE - 1, mid)) @@ (3 :> Position(mid, 0))
    IN GameState(pawns, {},
                 IF num_players = 2 THEN TOTAL_SHARED_WALLS ELSE TOTAL_SHARED_WALLS + 10,
                 0, None, num_players)

\* new_game with the left and right pawns of the 4-player layout exchanged.
new_game_mirrored(num_players) ==
    IF num_players \notin {2, 4} THEN ValueError
    ELSE
    LET mid == BOARD_SIZE \div 2
        pawns == IF num_players = 2
                 THEN (0 :> Position(0, mid)) @@ (1 :> Position(BOARD_SIZE - 1, mid))
                 ELSE (0 :> Position(0, mid)) @@ (1 :> Position(mid, 0))
                      @@ (2 :> Position(BOARD_SIZE - 1, mid)) @@ (3 :> Position(mid, BOARD_SIZE - 1))
    IN GameState(pawns, {},
                 IF num_players = 2 THEN TOTAL_SHARED_WALLS ELSE TOTAL_SHARED_WALLS + 10,
                 0, None, num_players)

\* GameState.new_game(num_players)
new_game(num_players) ==
    IF num_players \notin {2, 4} THEN ValueError
    ELSE
    LET mid == BOARD_SIZE \div 2
        pawns == IF num_players = 2
                 THEN (0 :> Position(0, mid)) @@ (1 :> Position(BOARD_SIZE - 1, mid))
                 ELSE (0 :> Position(0, mid)) @@ (1 :> Position(mid, BOARD_SIZE - 1))
                      @@ (2 :> Position(BOARD_SIZE - 1, mid)) @@ (3 :> Position(mid, 0))
    IN GameState(pawns, {},
                 IF num_players = 2 THEN TOTAL_SHARED_WALLS ELSE TOTAL_SHARED_WALLS + 10,
                 0, None, num_players)

is_terminal(s) == s.winner # None

\* The goal test with player 1 heading for row 0 whatever the player count.
OnTargetLine_row_only(s, i, p) ==
    \/ i = 0 /\ p.row = BOARD_SIZE - 1
    \/ i = 1 /\ p.row = 0
    \/ i = 2 /\ p.row = 0
    \/ i = 3 /\ p.col = BOARD_SIZE - 1

\* The goal test check_winner applies to pawn i standing on position p.
OnTargetLine(s, i, p) ==
    \/ i = 0 /\ p.row = BOARD_SIZE - 1
    \/ i = 1 /\ s.num_players = 2 /\ p.row = 0
    \/ i = 1 /\ s.num_players # 2 /\ p.col = 0
    \/ i = 2 /\ p.row = 0
    \/ i = 3 /\ p.col = BOARD_SIZE - 1

\* The loop of check_winner from pawn i on, w being the winner so far:
\* the loop has no break, every pawn on its target line assigns winner.
RECURSIVE WinnerScan(_, _, _)
WinnerScan(s, i, w) ==
    IF i \notin DOMAIN s.pawns THEN w
    ELSE WinnerScan(s, i + 1, IF OnTargetLine(s, i, s.pawns[i]) THEN i ELSE w)

\* check_winner without its early return on an already-set winner.
check_winner_overwriting(s) == [s EXCEPT !.winner = WinnerScan(s, 0, s.winner)]

check_winner(s) ==
    IF s.winner # None THEN s
    ELSE [s EXCEPT !.winner = WinnerScan(s, 0, None)]

----------------------------------------------------------------------------
(* engine/rules.py *)

DIRS == << <<-1, 0>>, <<1, 0>>, <<0, -1>>, <<0, 1>> >>

in_bounds(r, c) == 0 <= r /\ r < BOARD_SIZE /\ 0 <= c /\ c < BOARD_SIZE

\* The entries of one wall without the reverse direction of each edge.
BlockedBy_one_way(w) ==
    LET r == w[1]
        c == w[2]
    IN IF w[3]
       THEN { << <<r, c>>, <<1, 0>> >>, << <<r, c + 1>>, <<1, 0>> >> }
       ELSE { << <<r, c>>, <<0, 1>> >>, << <<r + 1, c>>, <<0, 1>> >> }

\* _build_blocked over a wall set: the pairs <<cell, delta>> that are blocked.
BlockedBy(w) ==
    LET r == w[1]
        c == w[2]
    IN IF w[3]
       THEN { << <<r, c>>, <<1, 0>> >>,     << <<r + 1, c>>, <<-1, 0>> >>,
              << <<r, c + 1>>, <<1, 0>> >>, << <<r + 1, c + 1>>, <<-1, 0>> >> }
       ELSE { << <<r, c>>, <<0, 1>> >>,     << <<r, c + 1>>, <<0, -1>> >>,
              << <<r + 1, c>>, <<0, 1>> >>, << <<r + 1, c + 1>>, <<0, -1>> >> }

build_blocked(walls) == UNION { BlockedBy(w) : w \in walls }

is_blocked(blocked, r, c, dr, dc) == << <<r, c>>, <<dr, dc>> >> \in blocked

\* state.pawns[i] with Python's list indexing (a negative i counts from the end).
PawnAt(s, i) == IF i < 0 THEN s.pawns[s.num_players + i] ELSE s.pawns[i]

\* MovesInDir with a straight jump that is not tested against the board edge.
MovesInDir_unbounded_jump(s, blocked, d) ==
    LET me == s.current_player
        other == 1 - me
        my_pos == PawnAt(s, me)
        opp_pos == PawnAt(s, other)
        dr == d[1]
        dc == d[2]
        nr == my_pos.row + dr
        nc == my_pos.col + dc
        jr == nr + dr
        jc == nc + dc
        diag_options == IF dr # 0 THEN << <<dr, 1>>, <<dr, -1>> >>
                        ELSE << <<1, dc>>, <<-1, dc>> >>
        Diag(dd) ==
            LET rr == my_pos.row + dd[1]
                cc == my_pos.col + dd[2]
            IN IF ~in_bounds(rr, cc) THEN << >>
               ELSE IF is_blocked(blocked, opp_pos.row, opp_pos.col,
                                  rr - opp_pos.row, cc - opp_pos.col) THEN << >>
               ELSE << Position(rr, cc) >>
    IN IF ~in_bounds(nr, nc) THEN << >>
       ELSE IF is_blocked(blocked, my_pos.row, my_pos.col, dr, dc) THEN << >>
       ELSE IF nr = opp_pos.row /\ nc = opp_pos.col
            THEN IF ~is_blocked(blocked, opp_pos.row, opp_pos.col, dr, dc)
                 THEN << Position(jr, jc) >>
                 ELSE Diag(diag_options[1]) \o Diag(diag_options[2])
       ELSE << Position(nr, nc) >>

\* MovesInDir without the wall test on the edge out of the mover's cell.
MovesInDir_through_walls(s, blocked, d) ==
    LET me == s.current_player
        other == 1 - me
        my_pos == PawnAt(s, me)
        opp_pos == PawnAt(s, other)
        dr == d[1]
        dc == d[2]
        nr == my_pos.row + dr
        nc == my_pos.col + dc
        jr == nr + dr
        jc == nc + dc
        diag_options == IF dr # 0 THEN << <<dr, 1>>, <<dr, -1>> >>
                        ELSE << <<1, dc>>, <<-1, dc>> >>
        Diag(dd) ==
            LET rr == my_pos.row + dd[1]
                cc == my_pos.col + dd[2]
            IN IF ~in_bounds(rr, cc) THEN << >>
               ELSE IF is_blocked(blocked, opp_pos.row, opp_pos.col,
                                  rr - opp_pos.row, cc - opp_pos.col) THEN << >>
               ELSE << Position(rr, cc) >>
    IN IF ~in_bounds(nr, nc) THEN << >>
       ELSE IF nr = opp_pos.row /\ nc = opp_pos.col
            THEN IF in_bounds(jr, jc)
                    /\ ~is_blocked(blocked, opp_pos.row, opp_pos.col, dr, dc)
                 THEN << Position(jr, jc) >>
                 ELSE Diag(diag_options[1]) \o Diag(diag_options[2])
       ELSE << Position(nr, nc) >>

\* MovesInDir with a straight jump that ignores a wall behind the jumped pawn.
MovesInDir_jump_through_wall(s, blocked, d) ==
    LET me == s.current_player
        other == 1 - me
        my_pos == PawnAt(s, me)
        opp_pos == PawnAt(s, other)
        dr == d[1]
        dc == d[2]
        nr == my_pos.row + dr
        nc == my_pos.col + dc
        jr == nr + dr
        jc == nc + dc
        diag_options == IF dr # 0 THEN << <<dr, 1>>, <<dr, -1>> >>
                        ELSE << <<1, dc>>, <<-1, dc>> >>
        Diag(dd) ==
            LET rr == my_pos.row + dd[1]
                cc == my_pos.col + dd[2]
            IN IF ~in_bounds(rr, cc) THEN << >>
               ELSE IF is_blocked(blocked, opp_pos.row, opp_pos.col,
                                  rr - opp_pos.row, cc - opp_pos.col) THEN << >>
               ELSE << Position(rr, cc) >>
    IN IF ~in_bounds(nr, nc) THEN << >>
       ELSE IF is_blocked(blocked, my_pos.row, my_pos.col, dr, dc) THEN << >>
       ELSE IF nr = opp_pos.row /\ nc = opp_pos.col
            THEN IF in_bounds(jr, jc)
                 THEN << Position(jr, jc) >>
                 ELSE Diag(diag_options[1]) \o Diag(diag_options[2])
       ELSE << Position(nr, nc) >>

\* Destinations appended by generate_pawn_moves for one direction d, in order.
MovesInDir(s, blocked, d) ==
    LET me == s.current_player
        other == 1 - me
        my_pos == PawnAt(s, me)
        opp_pos == PawnAt(s, other)
        dr == d[1]
        dc == d[2]
        nr == my_pos.row + dr
        nc == my_pos.col + dc
        jr == nr + dr
        jc == nc + dc
        diag_options == IF dr # 0 THEN << <<dr, 1>>, <<dr, -1>> >>
                        ELSE << <<1, dc>>, <<-1, dc>> >>
        Diag(dd) ==
            LET rr == my_pos.row + dd[1]
                cc == my_pos.col + dd[2]
            IN IF ~in_bounds(rr, cc) THEN << >>
               ELSE IF is_blocked(blocked, opp_pos.row, opp_pos.col,
                                  rr - opp_pos.row, cc - opp_pos.col) THEN << >>
               ELSE << Position(rr, cc) >>
    IN IF ~in_bounds(nr, nc) THEN << >>
       ELSE IF is_blocked(blocked, my_pos.row, my_pos.col, dr, dc) THEN << >>
       ELSE IF nr = opp_pos.row /\ nc = opp_pos.col
            THEN IF in_bounds(jr, jc)
                    /\ ~is_blocked(blocked, opp_pos.row, opp_pos.col, dr, dc)
                 THEN << Position(jr, jc) >>
                 ELSE Diag(diag_options[1]) \o Diag(diag_options[2])
       ELSE << Position(nr, nc) >>

\* The "Deduplicate" pass: keep the first move for every destination.
RECURSIVE Dedup(_, _)
Dedup(seq, seen) ==
    IF seq = << >> THEN << >>
    ELSE IF Head(seq) \in seen THEN Dedup(Tail(seq), seen)
    ELSE << Head(seq) >> \o Dedup(Tail(seq), seen \cup {Head(seq)})

\* generate_pawn_moves that returns the moves collected followed by the
\* deduplicated ones.
generate_pawn_moves_returning_both(s) ==
    LET blocked == build_blocked(s.walls)
        dests == MovesInDir(s, blocked, DIRS[1]) \o MovesInDir(s, blocked, DIRS[2])
                 \o MovesInDir(s, blocked, DIRS[3]) \o MovesInDir(s, blocked, DIRS[4])
        unique == dests \o Dedup(dests, {})
    IN [k \in 1..Len(unique) |-> Move("pawn", unique[k], NoWall)]

\* generate_pawn_moves(state): the ordered list of pawn moves.
generate_pawn_moves(s) ==
    LET blocked == build_blocked(s.walls)
        dests == MovesInDir(s, blocked, DIRS[1]) \o MovesInDir(s, blocked, DIRS[2])
                 \o MovesInDir(s, blocked, DIRS[3]) \o MovesInDir(s, blocked, DIRS[4])
        unique == Dedup(dests, {})
    IN [k \in 1..Len(unique) |-> Move("pawn", unique[k], NoWall)]

_goal_rows_for(player) == IF player = 0 THEN {BOARD_SIZE - 1} ELSE {0}

\* Cells entered from the cells of a BFS frontier.
Expand(blocked, frontier) ==
    UNION { { <<cell[1] + DIRS[k][1], cell[2] + DIRS[k][2]>> :
                k \in { j \in 1..4 :
                          /\ in_bounds(cell[1] + DIRS[j][1], cell[2] + DIRS[j][2])
                          /\ ~is_blocked(blocked, cell[1], cell[2], DIRS[j][1], DIRS[j][2]) } } :
            cell \in frontier }

\* The BFS loop of _player_has_path, one distance layer at a time: TRUE as
\* soon as a cell of a goal row is dequeued, FALSE when the queue runs empty.
RECURSIVE BfsRows(_, _, _, _)
BfsRows(blocked, goal_rows, frontier, visited) ==
    IF frontier = {} THEN FALSE
    ELSE IF \E cell \in frontier : cell[1] \in goal_rows THEN TRUE
    ELSE LET next == Expand(blocked, frontier) \ visited
         IN BfsRows(blocked, goal_rows, next, visited \cup next)

_player_has_path(s, blocked, player) ==
    LET start == PawnAt(s, player)
        goal_rows == _goal_rows_for(player)
    IN IF start.row \in goal_rows THEN TRUE
       ELSE BfsRows(blocked, goal_rows, {<<start.row, start.col>>},
                    {<<start.row, start.col>>})

_both_players_have_path(s, blocked) ==
    _player_has_path(s, blocked, 0) /\ _player_has_path(s, blocked, 1)

\* wall_edges with the endpoints of every edge in sorted order.
wall_edges(r, c, horizontal) ==
    IF horizontal
    THEN { << <<r, c>>, <<r + 1, c>> >>, << <<r, c + 1>>, <<r + 1, c + 1>> >> }
    ELSE { << <<r, c>>, <<r, c + 1>> >>, << <<r + 1, c>>, <<r + 1, c + 1>> >> }

blocked_edges(walls) == UNION { wall_edges(w[1], w[2], w[3]) : w \in walls }

\* The candidates of generate_wall_moves: range(BOARD_SIZE - 1) twice, both orientations.
WallCandidates ==
    { WallKey(r, c, h) : r \in 0..(BOARD_SIZE - 2), c \in 0..(BOARD_SIZE - 2), h \in BOOLEAN }

\* The candidate loop without its overlap check.
WallOffered_overlapping(s, w) ==
    /\ w \notin s.walls
    /\ WallKey(w[1], w[2], ~w[3]) \notin s.walls
    /\ LET temp == [s EXCEPT !.walls = s.walls \cup {w}]
       IN _both_players_have_path(temp, build_blocked(temp.walls))

\* The candidate loop without its crossing check.
WallOffered_crossing(s, w) ==
    /\ w \notin s.walls
    /\ wall_edges(w[1], w[2], w[3]) \cap blocked_edges(s.walls) = {}
    /\ LET temp == [s EXCEPT !.walls = s.walls \cup {w}]
       IN _both_players_have_path(temp, build_blocked(temp.walls))

\* The body of the candidate loop of generate_wall_moves: is wall w appended?
WallOffered(s, w) ==
    /\ w \notin s.walls
    /\ WallKey(w[1], w[2], ~w[3]) \notin s.walls
    /\ wall_edges(w[1], w[2], w[3]) \cap blocked_edges(s.walls) = {}
    /\ LET temp == [s EXCEPT !.walls = s.walls \cup {w}]
       IN _both_players_have_path(temp, build_blocked(temp.walls))

WallMoveSpace == [kind : {"wall"}, to : {NoPosition}, wall : WallCandidates]

\* generate_wall_moves without the test of the shared pool.
generate_wall_moves_ungated(s) ==
    { m \in WallMoveSpace : WallOffered(s, m.wall) }

\* generate_wall_moves that stops only once the pool has gone below zero.
generate_wall_moves_gated_below_zero(s) ==
    IF s.shared_walls_remaining < 0 THEN {}
    ELSE { m \in WallMoveSpace : WallOffered(s, m.wall) }

\* generate_wall_moves(state) as the set of its moves; the list is this set
\* in the fixed order (row, column, horizontal before vertical) of the loop.
generate_wall_moves(s) ==
    IF s.shared_walls_remaining <= 0 THEN {}
    ELSE { m \in WallMoveSpace : WallOffered(s, m.wall) }

Range(seq) == { seq[k] : k \in DOMAIN seq }

\* legal_moves without its is_terminal test.
legal_moves_ignoring_winner(s) ==
    Range(generate_pawn_moves(s)) \cup generate_wall_moves(s)

legal_moves(s) ==
    IF is_terminal(s) THEN {}
    ELSE Range(generate_pawn_moves(s)) \cup generate_wall_moves(s)

\* apply_move that adds the wall key but leaves the pool untouched.
apply_move_keeping_pool(s, move) ==
    LET moved == IF move.kind = "pawn" /\ move.to # NoPosition
                 THEN [s EXCEPT !.pawns[s.current_player] = move.to]
                 ELSE IF move.kind = "wall" /\ move.wall # NoWall
                 THEN [s EXCEPT !.walls = s.walls \cup {move.wall}]
                 ELSE s
        checked == check_winner(moved)
    IN IF ~is_terminal(checked)
       THEN [checked EXCEPT !.current_player = 1 - checked.current_player]
       ELSE checked

\* apply_move that passes the turn whether or not the move won the game.
apply_move_always_advancing(s, move) ==
    LET moved == IF move.kind = "pawn" /\ move.to # NoPosition
                 THEN [s EXCEPT !.pawns[s.current_player] = move.to]
                 ELSE IF move.kind = "wall" /\ move.wall # NoWall
                 THEN [s EXCEPT !.walls = s.walls \cup {move.wall},
                                !.shared_walls_remaining = s.shared_walls_remaining - 1]
                 ELSE s
        checked == check_winner(moved)
    IN [checked EXCEPT !.current_player = 1 - checked.current_player]

\* apply_move whose winner check looks at the state before the move.
apply_move_checking_before(s, move) ==
    LET moved == IF move.kind = "pawn" /\ move.to # NoPosition
                 THEN [s EXCEPT !.pawns[s.current_player] = move.to]
                 ELSE IF move.kind = "wall" /\ move.wall # NoWall
                 THEN [s EXCEPT !.walls = s.walls \cup {move.wall},
                                !.shared_walls_remaining = s.shared_walls_remaining - 1]
                 ELSE s
        checked == [moved EXCEPT !.winner = check_winner(s).winner]
    IN IF ~is_terminal(checked)
       THEN [checked EXCEPT !.current_player = 1 - checked.current_player]
       ELSE checked

\* apply_move that puts a pawn move on the pawn of the player not to move.
apply_move_moving_opponent(s, move) ==
    LET moved == IF move.kind = "pawn" /\ move.to # NoPosition
                 THEN [s EXCEPT !.pawns[1 - s.current_player] = move.to]
                 ELSE IF move.kind = "wall" /\ move.wall # NoWall
                 THEN [s EXCEPT !.walls = s.walls \cup {move.wall},
                                !.shared_walls_remaining = s.shared_walls_remaining - 1]
                 ELSE s
        checked == check_winner(moved)
    IN IF ~is_terminal(checked)
       THEN [checked EXCEPT !.current_player = 1 - checked.current_player]
       ELSE checked

apply_move(s, move) ==
    LET moved == IF move.kind = "pawn" /\ move.to # NoPosition
                 THEN [s EXCEPT !.pawns[s.current_player] = move.to]
                 ELSE IF move.kind = "wall" /\ move.wall # NoWall
                 THEN [s EXCEPT !.walls = s.walls \cup {move.wall},
                                !.shared_walls_remaining = s.shared_walls_remaining - 1]
                 ELSE s
        checked == check_winner(moved)
    IN IF ~is_terminal(checked)
       THEN [checked EXCEPT !.current_player = 1 - checked.current_player]
       ELSE checked

----------------------------------------------------------------------------
(* The game: a fresh 2- or 4-player game, then moves chosen from legal_moves *)

\* The most walls the players place in an explored game.
MaxWalls == 3

\* The walls the players choose among: anchors beside the cell (4, 0).
PlayWalls == { WallKey(3, 0, TRUE), WallKey(4, 0, TRUE), WallKey(4, 1, FALSE) }

\* The cells the players choose to move to: the centre column, on which the
\* pawns of players 0 and 2 start, and two rows leading to the left edge.
PlayRows == {3, 4}

PlayCols == {4}

PlayCells == { Position(r, c) : r \in PlayRows, c \in 0..(BOARD_SIZE - 1) }
             \cup { Position(r, c) : r \in 0..(BOARD_SIZE - 1), c \in PlayCols }

Init == \E n \in {2, 4} : state = new_game(n)

\* A turn: the mover picks a pawn move of legal_moves(state) and it is applied.
PlayPawn ==
    \E m \in Range(generate_pawn_moves(state)) :
        /\ m.to \in PlayCells
        /\ m \in legal_moves(state)
        /\ state' = apply_move(state, m)

\* A turn: the mover picks a wall move of legal_moves(state) and it is applied.
PlayWall ==
    /\ Cardinality(state.walls) < MaxWalls
    /\ \E w \in PlayWalls :
        /\ WallMove(w) \in legal_moves(state)
        /\ state' = apply_move(state, WallMove(w))

Next == PlayPawn \/ PlayWall

Spec == Init /\ [][Next]_vars

----------------------------------------------------------------------------
(* The test harness of tests/test_engine.py: pawns are assigned directly,  *)
(* check_winner and apply_move are called on whatever state results.       *)

\* The cells a test assigns to a pawn.
HarnessCells == { Position(BOARD_SIZE - 1, 4), Position(0, 4), Position(4, 0),
                  Position(4, BOARD_SIZE - 1), Position(4, 4) }

\* state.pawns[i] = Position(...)
HarnessSetPawn ==
    \E i \in DOMAIN state.pawns : \E p \in HarnessCells :
        state' = [state EXCEPT !.pawns[i] = p]

\* state.check_winner()
HarnessCheckWinner == state' = check_winner(state)

\* rules.apply_move(state, move) for a pawn move, legal or not
HarnessApplyPawn ==
    \E p \in HarnessCells : state' = apply_move(state, Move("pawn", p, NoWall))

\* rules.apply_move(state, move) for a wall move, legal or not
HarnessApplyWall ==
    /\ new_game(state.num_players).shared_walls_remaining
          - state.shared_walls_remaining < MaxWalls
    /\ \E w \in PlayWalls : state' = apply_move(state, WallMove(w))

NextHarness ==
    HarnessSetPawn \/ HarnessCheckWinner \/ HarnessApplyPawn \/ HarnessApplyWall

SpecHarness == Init /\ [][NextHarness]_vars

----------------------------------------------------------------------------
(* Setup: new_game is called with a requested player count, and the game   *)
(* it creates, if any, is then played with pawn moves.                     *)

\* The largest player count requested of new_game.
MaxPlayers == 5

\* No game exists yet; new_game is about to be called with n.
NoGame(n) == [requested |-> n]

IsRequest(s) == "requested" \in DOMAIN s

IsGame(s) == "pawns" \in DOMAIN s

InitSetup == \E n \in 0..MaxPlayers : state = NoGame(n)

\* GameState.new_game(n): the new state, or the error it raises.
Setup ==
    /\ IsRequest(state)
    /\ state' = new_game(state.requested)

SetupPlayPawn == IsGame(state) /\ PlayPawn

NextSetup == Setup \/ SetupPlayPawn

SpecSetup == InitSetup /\ [][NextSetup]_vars

----------------------------------------------------------------------------
(* Endgame: play from the position in which all but EndgamePool walls of   *)
(* the shared pool have been placed, by legal wall moves made in turn from *)
(* new_game, as vertical walls that leave every column open.               *)

\* Walls left in the shared pool when the endgame starts.
EndgamePool == 2

\* The k-th wall placed before the endgame: columns of every second anchor.
OpeningWall(k) == WallKey(2 * ((k - 1) % 4), (k - 1) \div 4, FALSE)

\* The state after the opening walls were placed through apply_move.
EndgameStart(n) ==
    LET fresh == new_game(n)
        placed == fresh.shared_walls_remaining - EndgamePool
    IN [fresh EXCEPT !.walls = { OpeningWall(k) : k \in 1..placed },
                     !.shared_walls_remaining = EndgamePool]

\* The walls tried in the endgame.
EndWalls == { WallKey(1, 0, TRUE), WallKey(3, 0, TRUE),
              WallKey(5, 0, TRUE), WallKey(7, 0, TRUE) }

InitEndgame == \E n \in {2, 4} : state = EndgameStart(n)

\* attempt_move with a wall move taken from legal_moves(state)
EndWall ==
    \E w \in EndWalls :
        /\ WallMove(w) \in legal_moves(state)
        /\ state' = apply_move(state, WallMove(w))

NextEndgame == PlayPawn \/ EndWall

SpecEndgame == InitEndgame /\ [][NextEndgame]_vars

----------------------------------------------------------------------------
(* Building: a game from new_game in which walls are placed next to each   *)
(* other on the left edge while a pawn walks along row 4 towards them.     *)

\* The walls tried: two stacked horizontal walls, and at the anchor next to
\* them a vertical wall and the horizontal wall crossing it.
BuildWalls == { WallKey(2, 0, TRUE), WallKey(3, 0, TRUE),
                WallKey(3, 1, FALSE), WallKey(3, 1, TRUE) }

BuildCells ==
    { Position(4, c) : c \in 0..(BOARD_SIZE - 1) }
        \cup { Position(3, 1), Position(0, 4), Position(1, 4) }

InitBuild == \E n \in {2, 4} : state = new_game(n)

\* attempt_move with a pawn move taken from legal_moves(state)
BuildPawn ==
    \E m \in Range(generate_pawn_moves(state)) :
        /\ m.to \in BuildCells
        /\ m \in legal_moves(state)
        /\ state' = apply_move(state, m)

\* attempt_move with a wall move taken from legal_moves(state)
BuildWall ==
    /\ Cardinality(state.walls) < MaxWalls
    /\ \E w \in BuildWalls :
          /\ WallMove(w) \in legal_moves(state)
          /\ state' = apply_move(state, WallMove(w))

NextBuild == BuildPawn \/ BuildWall

SpecBuild == InitBuild /\ [][NextBuild]_vars

----------------------------------------------------------------------------
(* Objects: GameState objects as Python keeps them, each holding a         *)
(* reference to a list of pawns and a reference to a set of walls. The     *)
(* heap is [lists, sets, objects]: lists[a] and sets[a] are the contents   *)
(* of the list and of the set at address a, and objects[k] is a GameState  *)
(* whose pawns and walls fields are addresses.                             *)

\* The number of clone() calls made.
MaxClones == 1

\* The heap holding the one GameState g.
HeapOf(g) ==
    [lists |-> << g.pawns >>, sets |-> << g.walls >>,
     objects |-> << [g EXCEPT !.pawns = 1, !.walls = 1] >>]

\* The fields of object k read through its references.
View(h, k) ==
    [h.objects[k] EXCEPT !.pawns = h.lists[h.objects[k].pawns],
                         !.walls = h.sets[h.objects[k].walls]]

\* clone() that passes self.walls on instead of set(self.walls).
clone_sharing_walls(h, k) ==
    LET self == h.objects[k]
    IN [lists |-> Append(h.lists, h.lists[self.pawns]),
        sets |-> h.sets,
        objects |-> Append(h.objects, [self EXCEPT !.pawns = Len(h.lists) + 1])]

\* clone() that passes self.pawns on instead of list(self.pawns).
clone_sharing_pawns(h, k) ==
    LET self == h.objects[k]
    IN [lists |-> h.lists,
        sets |-> Append(h.sets, h.sets[self.walls]),
        objects |-> Append(h.objects, [self EXCEPT !.walls = Len(h.sets) + 1])]

\* GameState.clone() of object k: list(self.pawns) and set(self.walls) are
\* new objects with the same elements, the other fields are copied.
clone(h, k) ==
    LET self == h.objects[k]
    IN [lists |-> Append(h.lists, h.lists[self.pawns]),
        sets |-> Append(h.sets, h.sets[self.walls]),
        objects |-> Append(h.objects, [self EXCEPT !.pawns = Len(h.lists) + 1,
                                                   !.walls = Len(h.sets) + 1])]

\* The walls added to and removed from wall sets.
CloneWalls == { WallKey(0, 0, TRUE), WallKey(2, 2, FALSE) }

InitClone == \E n \in {2, 4} : state = HeapOf(new_game(n))

\* other = obj.clone()
CloneState ==
    /\ Len(state.objects) <= MaxClones
    /\ \E k \in DOMAIN state.objects : state' = clone(state, k)

\* obj.walls.add(key)
AddWall ==
    \E k \in DOMAIN state.objects : \E w \in CloneWalls :
        state' = [state EXCEPT !.sets[state.objects[k].walls] = @ \cup {w}]

\* obj.walls.discard(key)
DiscardWall ==
    \E k \in DOMAIN state.objects : \E w \in CloneWalls :
        state' = [state EXCEPT !.sets[state.objects[k].walls] = @ \ {w}]

\* obj.pawns[i] = Position(4, 4)
ReplacePawn ==
    \E k \in DOMAIN state.objects : \E i \in {0, 1} :
        state' = [state EXCEPT !.lists[state.objects[k].pawns][i] = Position(4, 4)]

NextClone == CloneState \/ AddWall \/ DiscardWall \/ ReplacePawn

SpecClone == InitClone /\ [][NextClone]_vars

----------------------------------------------------------------------------
(* players/hotseat.py and render/pygame_renderer.py: the controller and    *)
(* the UI that drives it. The model's state is the UI object:              *)
(* [state, controller], the controller being                               *)
(* [state, _cached_moves, turn, _last_player].                             *)
(* The list _cached_moves is kept as << >> when it is the empty list of    *)
(* __init__ and as << s >> when it is rules.legal_moves(s).                *)

\* HotseatController.__init__(state)
HotseatController(s) ==
    [state |-> s, _cached_moves |-> << >>, turn |-> 0, _last_player |-> s.current_player]

\* The moves held in controller._cached_moves.
CachedMoves(c) ==
    IF c._cached_moves = << >> THEN {} ELSE legal_moves(c._cached_moves[1])

\* refresh_moves that never records the player it last saw.
refresh_moves_forgetting_player(c) ==
    LET switched == c.state.winner = None /\ c.state.current_player # c._last_player
    IN [c EXCEPT !._cached_moves = << c.state >>,
                 !.turn = IF switched THEN @ + 1 ELSE @]

\* HotseatController.refresh_moves()
refresh_moves(c) ==
    LET switched == c.state.winner = None /\ c.state.current_player # c._last_player
    IN [c EXCEPT !._cached_moves = << c.state >>,
                 !.turn = IF switched THEN @ + 1 ELSE @,
                 !._last_player = IF switched THEN c.state.current_player ELSE @]

\* attempt_move that applies the move without looking it up.
attempt_move_unvalidated(c, move) ==
    [controller |-> refresh_moves([c EXCEPT !.state = apply_move(c.state, move)]),
     returned |-> TRUE]

\* HotseatController.attempt_move(move): the controller afterwards and the
\* value returned.
attempt_move(c, move) ==
    IF move \in CachedMoves(c)
    THEN [controller |-> refresh_moves([c EXCEPT !.state = apply_move(c.state, move)]),
          returned |-> TRUE]
    ELSE [controller |-> c, returned |-> FALSE]

\* apply_agent_move that applies whatever move the agent chose.
apply_agent_move_unvalidated(ui, move) ==
    IF ui.state.winner # None THEN ui
    ELSE LET new_state == apply_move(ui.state, move)
         IN [state |-> new_state,
             controller |-> refresh_moves([ui.controller EXCEPT !.state = new_state])]

\* PygameHotseatUI.apply_agent_move(agent), move being what the agent chose.
apply_agent_move(ui, move) ==
    IF ui.state.winner # None THEN ui
    ELSE IF move \notin legal_moves(ui.state) THEN ui
    ELSE LET new_state == apply_move(ui.state, move)
         IN [state |-> new_state,
             controller |-> refresh_moves([ui.controller EXCEPT !.state = new_state])]

\* The largest value of controller.turn from which a move is still tried.
MaxTurns == 11

\* The moves handed to the controller and to the UI: pawn moves along
\* column 4 and on the right end of row 4, two walls that cross each other,
\* and a pawn move without destination.
HotCells ==
    { Position(r, 4) : r \in 0..(BOARD_SIZE - 1) } \cup { Position(4, 7), Position(4, 8) }

HotWalls == { WallKey(0, 0, TRUE), WallKey(0, 0, FALSE) }

HotMoves ==
    { PawnMove(p.row, p.col) : p \in HotCells } \cup { WallMove(w) : w \in HotWalls }
        \cup { Move("pawn", NoPosition, NoWall) }

\* PygameHotseatUI.restart_game up to the construction of the controller.
InitHotseat ==
    \E n \in {2, 4} :
        state = [state |-> new_game(n), controller |-> HotseatController(new_game(n))]

\* controller.refresh_moves()
RefreshMoves ==
    state' = [state EXCEPT !.controller = refresh_moves(@)]

\* controller.attempt_move(move)
AttemptMove ==
    /\ state.controller.turn < MaxTurns
    /\ \E move \in HotMoves :
          state' = [state EXCEPT !.controller = attempt_move(@, move).controller]

\* ui.apply_agent_move(agent)
ApplyAgentMove ==
    /\ state.controller.turn < MaxTurns
    /\ \E move \in HotMoves : state' = apply_agent_move(state, move)

NextHotseat == RefreshMoves \/ AttemptMove \/ ApplyAgentMove

SpecHotseat == InitHotseat /\ [][NextHotseat]_vars

----------------------------------------------------------------------------
(* players/agents/llm_agent.py: one invocation of LLMAgent.choose_move.    *)
(* The model's state is the invocation:                                    *)
(* [moves, max_attempts, attempt, calls, pc, returned], attempt being the  *)
(* number of loop iterations begun, calls the number of _call_llm calls,   *)
(* and pc one of "start", "loop", "fallback", "done", "raised".            *)
(* A string is a tuple of one-character strings.                           *)

\* The largest max_attempts an agent is created with.
MaxAttempts == 3

Digit == [c \in {"0", "1", "2", "3", "4", "5", "6", "7", "8", "9"} |->
            CASE c = "0" -> 0 [] c = "1" -> 1 [] c = "2" -> 2 [] c = "3" -> 3
              [] c = "4" -> 4 [] c = "5" -> 5 [] c = "6" -> 6 [] c = "7" -> 7
              [] c = "8" -> 8 [] c = "9" -> 9]

\* str.strip() for blanks.
RECURSIVE StripLeft(_)
StripLeft(str) ==
    IF str # << >> /\ Head(str) = " " THEN StripLeft(Tail(str)) ELSE str

RECURSIVE StripRight(_)
StripRight(str) ==
    IF str # << >> /\ str[Len(str)] = " "
    THEN StripRight(SubSeq(str, 1, Len(str) - 1)) ELSE str

strip(str) == StripRight(StripLeft(str))

\* The value of a non-empty run of decimal digits.
RECURSIVE Decimal(_, _)
Decimal(str, acc) ==
    IF str = << >> THEN acc ELSE Decimal(Tail(str), 10 * acc + Digit[Head(str)])

\* int(str): blanks around the text are dropped, a sign may come first, the
\* rest must be decimal digits; anything else raises ValueError.
int(str) ==
    LET text == strip(str)
        signed == text # << >> /\ Head(text) \in {"-", "+"}
        digits == IF signed THEN Tail(text) ELSE text
    IN IF digits = << >> \/ \E k \in DOMAIN digits : digits[k] \notin DOMAIN Digit
       THEN [raised |-> TRUE, value |-> 0]
       ELSE [raised |-> FALSE,
             value |-> IF signed /\ Head(text) = "-"
                       THEN 0 - Decimal(digits, 0) ELSE Decimal(digits, 0)]

\* What _call_llm returns: None, or a text that is not a JSON object with a
\* string move_id, or a JSON object whose move_id is the given string.
NoResponse == [kind |-> "none", move_id |-> << >>]

Unparsable == [kind |-> "text", move_id |-> << >>]

Answer(move_id) == [kind |-> "json", move_id |-> move_id]

\* _parse_response(raw): whether a move id came out, and the id.
_parse_response(raw) ==
    IF raw.kind = "json"
    THEN [found |-> TRUE, move_id |-> strip(raw.move_id)]
    ELSE [found |-> FALSE, move_id |-> << >>]

\* idx = int(move_id[1:]) if move_id.startswith("M") else -1, -1 on ValueError
MoveIndex(move_id) ==
    IF move_id # << >> /\ Head(move_id) = "M"
    THEN IF int(Tail(move_id)).raised THEN -1 ELSE int(Tail(move_id)).value
    ELSE -1

\* The loop body that indexes moves whenever idx is not negative; an index
\* past the end raises IndexError.
LoopBody_unchecked_index(a, raw) ==
    LET a1 == [a EXCEPT !.attempt = @ + 1, !.calls = @ + 1]
        parsed == _parse_response(raw)
        idx == MoveIndex(parsed.move_id)
    IN IF raw.kind = "none" THEN [a1 EXCEPT !.pc = "fallback"]
       ELSE IF ~parsed.found THEN a1
       ELSE IF 0 <= idx
            THEN IF idx < Len(a.moves)
                 THEN [a1 EXCEPT !.pc = "done", !.returned = a.moves[idx + 1]]
                 ELSE [a1 EXCEPT !.pc = "raised"]
       ELSE a1

\* The loop body that goes on to the next attempt when the call failed.
LoopBody_retrying_failed_call(a, raw) ==
    LET a1 == [a EXCEPT !.attempt = @ + 1, !.calls = @ + 1]
        parsed == _parse_response(raw)
        idx == MoveIndex(parsed.move_id)
    IN IF raw.kind = "none" THEN a1
       ELSE IF ~parsed.found THEN a1
       ELSE IF 0 <= idx /\ idx < Len(a.moves)
            THEN [a1 EXCEPT !.pc = "done", !.returned = a.moves[idx + 1]]
       ELSE a1

\* One iteration of the attempt loop of choose_move, raw being what
\* _call_llm returned.
LoopBody(a, raw) ==
    LET a1 == [a EXCEPT !.attempt = @ + 1, !.calls = @ + 1]
        parsed == _parse_response(raw)
        idx == MoveIndex(parsed.move_id)
    IN IF raw.kind = "none" THEN [a1 EXCEPT !.pc = "fallback"]
       ELSE IF ~parsed.found THEN a1
       ELSE IF 0 <= idx /\ idx < Len(a.moves)
            THEN [a1 EXCEPT !.pc = "done", !.returned = a.moves[idx + 1]]
       ELSE a1

IsPawnMove(m) == m.kind = "pawn"

\* The legal-move lists handed to choose_move: pawn moves first, then wall
\* moves, as legal_moves builds them.
LLMPawnLists == { << >>, << PawnMove(1, 4) >>, << PawnMove(1, 4), PawnMove(0, 3) >> }

LLMWallLists ==
    { << >>, << WallMove(WallKey(0, 0, TRUE)) >>,
      << WallMove(WallKey(0, 0, TRUE)), WallMove(WallKey(0, 0, FALSE)) >> }

\* The responses of the LLM.
Responses ==
    { NoResponse, Unparsable,
      Answer(<<"M", "0">>), Answer(<<"M", "1">>), Answer(<<"M", "3">>),
      Answer(<<"M", "4">>), Answer(<<"M", "1", "0">>), Answer(<<"M", "-", "1">>),
      Answer(<<"M">>), Answer(<<"M", "x">>), Answer(<<"X", "1">>),
      Answer(<<" ", "M", "2", " ">>), Answer(<< >>) }

InitLLM ==
    \E pawn_list \in LLMPawnLists : \E wall_list \in LLMWallLists :
    \E n \in 0..MaxAttempts :
        state = [moves |-> pawn_list \o wall_list, max_attempts |-> n,
                 attempt |-> 0, calls |-> 0, pc |-> "start", returned |-> Move("none", NoPosition, NoWall)]

\* choose_move up to the loop: RuntimeError on an empty list.
LLMStart ==
    /\ state.pc = "start"
    /\ state' = [state EXCEPT !.pc = IF state.moves = << >> THEN "raised" ELSE "loop"]

\* One attempt: _call_llm returns and the response is handled.
LLMAttempt ==
    /\ state.pc = "loop"
    /\ state.attempt < state.max_attempts
    /\ \E raw \in Responses : state' = LoopBody(state, raw)

\* The fallback that always takes random.choice(moves).
LLMFallback_any_move ==
    /\ \/ state.pc = "fallback"
       \/ state.pc = "loop" /\ state.attempt >= state.max_attempts
    /\ \E k \in DOMAIN state.moves :
          state' = [state EXCEPT !.pc = "done", !.returned = state.moves[k]]

\* The fallback after the loop: the first pawn move, else random.choice(moves).
LLMFallback ==
    /\ \/ state.pc = "fallback"
       \/ state.pc = "loop" /\ state.attempt >= state.max_attempts
    /\ LET pawn_moves == SelectSeq(state.moves, IsPawnMove)
       IN IF pawn_moves # << >>
          THEN state' = [state EXCEPT !.pc = "done", !.returned = pawn_moves[1]]
          ELSE \E k \in DOMAIN state.moves :
                  state' = [state EXCEPT !.pc = "done", !.returned = state.moves[k]]

NextLLM == LLMStart \/ LLMAttempt \/ LLMFallback

SpecLLM == InitLLM /\ [][NextLLM]_vars

\* One invocation that runs on: every call of the LLM client returns.
SpecLLMLive == InitLLM /\ [][NextLLM]_vars /\ WF_vars(NextLLM)

----------------------------------------------------------------------------
(* engine/rules.py on objects: what apply_move, generate_wall_moves and    *)
(* legal_moves do to the heap that holds their argument. The model's state *)
(* is [heap, last_call]: heap as above, last_call the function called last.*)

\* The number of apply_move calls made.
MaxApplied == 2

\* The heap once the objects, lists and sets beyond the given counts are
\* garbage: a local state nobody refers to any more.
Release(h, objects, lists, sets) ==
    [lists |-> SubSeq(h.lists, 1, lists), sets |-> SubSeq(h.sets, 1, sets),
     objects |-> SubSeq(h.objects, 1, objects)]

\* The i-th candidate of the loop of generate_wall_moves, counted from 0.
CandidateAt(i) ==
    WallKey(i \div (2 * (BOARD_SIZE - 1)), (i \div 2) % (BOARD_SIZE - 1), i % 2 = 0)

\* One candidate of generate_wall_moves on object k: a candidate that gets
\* past the key, crossing and overlap tests is added to the walls of a
\* clone, the path test reads the clone, and the clone is dropped.
SimulateCandidate(h, k, w) ==
    LET walls == View(h, k).walls
    IN IF \/ w \in walls
          \/ WallKey(w[1], w[2], ~w[3]) \in walls
          \/ wall_edges(w[1], w[2], w[3]) \cap blocked_edges(walls) # {}
       THEN h
       ELSE LET cloned == clone(h, k)
                temp == Len(cloned.objects)
                added == [cloned EXCEPT !.sets[cloned.objects[temp].walls] = @ \cup {w}]
            IN Release(added, Len(h.objects), Len(h.lists), Len(h.sets))

\* The heap after the candidates first, first+1, ..., last of the loop, in
\* this order. The comparison of done with itself has the first half
\* evaluated before the second half starts from it.
RECURSIVE SimulateFrom(_, _, _, _)
SimulateFrom(h, k, first, last) ==
    IF first = last THEN SimulateCandidate(h, k, CandidateAt(first))
    ELSE LET middle == (first + last) \div 2
             done == SimulateFrom(h, k, first, middle)
         IN IF done = done THEN SimulateFrom(done, k, middle + 1, last) ELSE h

\* The heap after generate_wall_moves(state), state being object k.
generate_wall_moves_on_heap(h, k) ==
    IF h.objects[k].shared_walls_remaining <= 0 THEN h
    ELSE SimulateFrom(h, k, 0, 2 * (BOARD_SIZE - 1) * (BOARD_SIZE - 1) - 1)

\* The heap after legal_moves(state), state being object k.
legal_moves_on_heap(h, k) ==
    IF is_terminal(View(h, k)) THEN h ELSE generate_wall_moves_on_heap(h, k)

\* apply_move that works on its argument instead of a clone.
apply_move_in_place(h, k, move) ==
    LET new_state == k
        self == h.objects[new_state]
        moved == IF move.kind = "pawn" /\ move.to # NoPosition
                 THEN [h EXCEPT !.lists[self.pawns][self.current_player] = move.to]
                 ELSE IF move.kind = "wall" /\ move.wall # NoWall
                 THEN [h EXCEPT !.sets[self.walls] = @ \cup {move.wall},
                                !.objects[new_state].shared_walls_remaining = @ - 1]
                 ELSE h
        checked == check_winner(View(moved, new_state))
    IN [moved EXCEPT !.objects[new_state].winner = checked.winner,
                     !.objects[new_state].current_player =
                         IF ~is_terminal(checked) THEN 1 - @ ELSE @]

\* The heap after apply_move(state, move), state being object k: the state
\* returned is the last object.
apply_move_on_heap(h, k, move) ==
    LET cloned == clone(h, k)
        new_state == Len(cloned.objects)
        self == cloned.objects[new_state]
        moved == IF move.kind = "pawn" /\ move.to # NoPosition
                 THEN [cloned EXCEPT !.lists[self.pawns][self.current_player] = move.to]
                 ELSE IF move.kind = "wall" /\ move.wall # NoWall
                 THEN [cloned EXCEPT !.sets[self.walls] = @ \cup {move.wall},
                                     !.objects[new_state].shared_walls_remaining = @ - 1]
                 ELSE cloned
        checked == check_winner(View(moved, new_state))
    IN [moved EXCEPT !.objects[new_state].winner = checked.winner,
                     !.objects[new_state].current_player =
                         IF ~is_terminal(checked) THEN 1 - @ ELSE @]

\* The walls of the wall moves applied.
PureWalls == { WallKey(0, 0, TRUE), WallKey(0, 0, FALSE) }

InitPure ==
    \E n \in {2, 4} : state = [heap |-> HeapOf(new_game(n)), last_call |-> "new_game"]

\* rules.apply_move(state, move) with a pawn move of legal_moves(state)
PureApplyPawn ==
    /\ Len(state.heap.objects) <= MaxApplied
    /\ \E k \in DOMAIN state.heap.objects :
       \E m \in Range(generate_pawn_moves(View(state.heap, k))) :
          /\ m \in legal_moves(View(state.heap, k))
          /\ state' = [heap |-> apply_move_on_heap(state.heap, k, m),
                       last_call |-> "apply_move"]

\* rules.apply_move(state, move) with a wall move of legal_moves(state)
PureApplyWall ==
    /\ Len(state.heap.objects) <= MaxApplied
    /\ \E k \in DOMAIN state.heap.objects : \E w \in PureWalls :
          /\ WallMove(w) \in legal_moves(View(state.heap, k))
          /\ state' = [heap |-> apply_move_on_heap(state.heap, k, WallMove(w)),
                       last_call |-> "apply_move"]

\* rules.generate_wall_moves(state)
PureGenerateWallMoves ==
    \E k \in DOMAIN state.heap.objects :
        state' = [heap |-> generate_wall_moves_on_heap(state.heap, k),
                  last_call |-> "generate_wall_moves"]

\* rules.legal_moves(state)
PureLegalMoves ==
    \E k \in DOMAIN state.heap.objects :
        state' = [heap |-> legal_moves_on_heap(state.heap, k),
                  last_call |-> "legal_moves"]

NextPure == PureApplyPawn \/ PureApplyWall \/ PureGenerateWallMoves \/ PureLegalMoves

SpecPure == InitPure /\ [][NextPure]_vars

----------------------------------------------------------------------------
(* The lists of moves: generate_wall_moves and legal_moves as the lists    *)
(* the code returns, and a game in which the pawns of players 0 and 1 walk *)
(* column 4 towards each other and meet next to a wall.                    *)

\* The list generate_wall_moves(state) returns: the candidates in the order
\* of the loop, those appended only.
generate_wall_moves_list(s) ==
    IF s.shared_walls_remaining <= 0 THEN << >>
    ELSE SelectSeq([i \in 1..Cardinality(WallCandidates) |-> WallMove(CandidateAt(i - 1))],
                   LAMBDA m : WallOffered(s, m.wall))

\* The list legal_moves(state) returns.
legal_moves_list(s) ==
    IF is_terminal(s) THEN << >>
    ELSE generate_pawn_moves(s) \o generate_wall_moves_list(s)

MeetCells == { Position(r, 4) : r \in 0..(BOARD_SIZE - 1) } \cup { Position(4, 3) }

\* The wall below the cells (4, 4) and (4, 5).
MeetWalls == { WallKey(4, 4, TRUE) }

InitMeet == \E n \in {2, 4} : state = new_game(n)

\* A turn: a pawn move of legal_moves(state) is applied.
MeetPawn ==
    \E m \in Range(generate_pawn_moves(state)) :
        /\ m.to \in MeetCells
        /\ m \in legal_moves(state)
        /\ state' = apply_move(state, m)

\* A turn: a wall move of legal_moves(state) is applied.
MeetWall ==
    \E w \in MeetWalls :
        /\ WallMove(w) \in legal_moves(state)
        /\ state' = apply_move(state, WallMove(w))

NextMeet == MeetPawn \/ MeetWall

SpecMeet == InitMeet /\ [][NextMeet]_vars

----------------------------------------------------------------------------
(* players/agents/human_agent.py: a HumanAgent and the calls made on it.   *)
(* The model's state is [agent, optimize, last_call, returned, raised]:    *)
(* optimize tells whether the interpreter runs with -O, which compiles     *)
(* assert statements away; returned and raised are the outcome of the last *)
(* choose_move.                                                            *)

\* Python's None where a Move is expected.
NoMove == Move("none", NoPosition, NoWall)

\* HumanAgent.__init__()
HumanAgent == [pending_move |-> NoMove]

\* HumanAgent.set_pending(move)
set_pending(agent, move) == [agent EXCEPT !.pending_move = move]

\* HumanAgent.choose_move(view): the agent afterwards, the value returned
\* and whether AssertionError was raised.
choose_move(agent, optimize) ==
    IF ~optimize /\ agent.pending_move = NoMove
    THEN [agent |-> agent, returned |-> NoMove, raised |-> TRUE]
    ELSE [agent |-> [agent EXCEPT !.pending_move = NoMove],
          returned |-> agent.pending_move, raised |-> FALSE]

\* The moves a click selects: pawn moves to the cells of the board.
HumanMoves ==
    { PawnMove(r, c) : r \in 0..(BOARD_SIZE - 1), c \in 0..(BOARD_SIZE - 1) }

InitHuman ==
    \E optimize \in BOOLEAN :
        state = [agent |-> HumanAgent, optimize |-> optimize, last_call |-> "__init__",
                 returned |-> NoMove, raised |-> FALSE]

\* agent.set_pending(m)
SetPending ==
    \E m \in HumanMoves :
        state' = [state EXCEPT !.agent = set_pending(@, m), !.last_call = "set_pending"]

\* agent.choose_move(view)
ChooseMove ==
    LET call == choose_move(state.agent, state.optimize)
    IN state' = [state EXCEPT !.agent = call.agent, !.last_call = "choose_move",
                              !.returned = call.returned, !.raised = call.raised]

\* handle_click on a cell that matches a legal move m: agent.set_pending(m),
\* then the choose_move call of apply_agent_move.
HandleClick ==
    \E m \in HumanMoves :
        LET call == choose_move(set_pending(state.agent, m), state.optimize)
        IN state' = [state EXCEPT !.agent = call.agent, !.last_call = "handle_click",
                                  !.returned = call.returned, !.raised = call.raised]

NextHuman == SetPending \/ ChooseMove \/ HandleClick

SpecHuman == InitHuman /\ [][NextHuman]_vars

----------------------------------------------------------------------------
(* Notions the properties are stated in *)

Cells == (0..(BOARD_SIZE - 1)) \X (0..(BOARD_SIZE - 1))

CellOf(p) == <<p.row, p.col>>

\* The two unit edges a wall covers, each as the set of its two cells.
CoveredEdges(w) ==
    IF w[3]
    THEN { { <<w[1], w[2]>>, <<w[1] + 1, w[2]>> },
           { <<w[1], w[2] + 1>>, <<w[1] + 1, w[2] + 1>> } }
    ELSE { { <<w[1], w[2]>>, <<w[1], w[2] + 1>> },
           { <<w[1] + 1, w[2]>>, <<w[1] + 1, w[2] + 1>> } }

\* The edge between the adjacent cells a and b is covered by a placed wall.
EdgeCut(walls, a, b) == \E w \in walls : {a, b} \in CoveredEdges(w)

Adjacent(a, b) ==
    \/ a[1] = b[1] /\ (a[2] = b[2] + 1 \/ b[2] = a[2] + 1)
    \/ a[2] = b[2] /\ (a[1] = b[1] + 1 \/ b[1] = a[1] + 1)

OpenNeighbours(walls, a) ==
    { b \in { <<a[1] - 1, a[2]>>, <<a[1] + 1, a[2]>>, <<a[1], a[2] - 1>>, <<a[1], a[2] + 1>> } :
        b \in Cells /\ ~EdgeCut(walls, a, b) }

\* The cells joined to the frontier by paths that cross no wall.
RECURSIVE Flood(_, _, _)
Flood(walls, frontier, visited) ==
    IF frontier = {} THEN visited
    ELSE LET next == UNION { OpenNeighbours(walls, a) : a \in frontier } \ visited
         IN Flood(walls, next, visited \cup next)

\* Player p has a wall-respecting path from its pawn to its own target line.
HasPathToGoal(s, p) ==
    \E cell \in Flood(s.walls, {CellOf(s.pawns[p])}, {CellOf(s.pawns[p])}) :
        OnTargetLine(s, p, Position(cell[1], cell[2]))

AllHavePathToGoal(s) == \A p \in DOMAIN s.pawns : HasPathToGoal(s, p)

PawnMoveSpace ==
    [kind : {"pawn"}, to : { Position(c[1], c[2]) : c \in Cells }, wall : {NoWall}]

\* legal_moves(s) has a member.
SomeLegalMove(s) ==
    \/ \E m \in PawnMoveSpace : m \in legal_moves(s)
    \/ \E m \in WallMoveSpace : m \in legal_moves(s)

\* The cells the pawn moves of the player to move lead to.
Destinations(s) == { CellOf(m.to) : m \in Range(generate_pawn_moves(s)) }

Occupied(s, cell) == \E j \in DOMAIN s.pawns : CellOf(s.pawns[j]) = cell

MoverCell(s) == CellOf(s.pawns[s.current_player])

Others(s) == DOMAIN s.pawns \ {s.current_player}

Step(a, d) == <<a[1] + d[1], a[2] + d[2]>>

Deltas == { DIRS[k] : k \in 1..4 }

\* Pawn j stands on the neighbour of the mover in direction d, no wall between.
Faces(s, j, d) ==
    /\ CellOf(s.pawns[j]) = Step(MoverCell(s), d)
    /\ ~EdgeCut(s.walls, MoverCell(s), Step(MoverCell(s), d))

\* The straight jump over the pawn faced in direction d is available.
JumpAvailable(s, d) ==
    LET over == Step(MoverCell(s), d)
        landing == Step(over, d)
    IN /\ landing \in Cells
       /\ ~EdgeCut(s.walls, over, landing)
       /\ ~Occupied(s, landing)

\* Cell x is a side-step beside the pawn faced in direction d, and is free.
SideStepFree(s, d, x) ==
    LET over == Step(MoverCell(s), d)
    IN /\ x \in Cells
       /\ Adjacent(over, x)
       /\ x # MoverCell(s)
       /\ x # Step(over, d)
       /\ ~EdgeCut(s.walls, over, x)
       /\ ~Occupied(s, x)

----------------------------------------------------------------------------
(* Properties *)

\* C1: a wall move taken from legal_moves leaves every player of the game
\* (2 or 4 players) a wall-respecting path from its pawn to its own target line.
C1_WallKeepsEveryPath ==
    [][state'.walls # state.walls => AllHavePathToGoal(state')]_vars

C3_TurnAdvancesModN ==
    [][(state' # state /\ state'.winner = None)
         => state'.current_player = (state.current_player + 1) % state.num_players]_vars

\* C4: once winner is set it keeps its value under every later check_winner
\* and apply_move call, whatever the pawns are changed to.
C4_WinnerIsFinal == [][state.winner # None => state'.winner = state.winner]_vars

C4_Witness ==
    /\ state.winner # None
    /\ ~OnTargetLine(state, state.winner, state.pawns[state.winner])
    /\ \E j \in DOMAIN state.pawns :
          j # state.winner /\ OnTargetLine(state, j, state.pawns[j])

\* C5: no pawn move offered to the player to move leads to a cell occupied by
\* another pawn, and no two pawns ever share a cell.
C5_NoSharedCell ==
    /\ \A i \in DOMAIN state.pawns : \A j \in DOMAIN state.pawns :
          i # j => state.pawns[i] # state.pawns[j]
    /\ \A j \in Others(state) : CellOf(state.pawns[j]) \notin Destinations(state)

\* C6: a wall move of legal_moves takes exactly one wall from the pool and adds
\* exactly its own, new key; placed walls plus the pool equal the initial pool.
C6_WallAccounting ==
    /\ Cardinality(state.walls) + state.shared_walls_remaining
         = new_game(state.num_players).shared_walls_remaining
    /\ \A w \in PlayWalls :
          WallMove(w) \in legal_moves(state) =>
            LET t == apply_move(state, WallMove(w))
            IN /\ t.shared_walls_remaining = state.shared_walls_remaining - 1
               /\ w \notin state.walls
               /\ t.walls = state.walls \cup {w}
               /\ Cardinality(t.walls) = Cardinality(state.walls) + 1

C6_Witness ==
    /\ Cardinality(state.walls) = 2
    /\ \E w \in PlayWalls : WallMove(w) \in legal_moves(state)

\* C7: a fresh game has 20 shared walls, with 2 players and with 4.
C7_FreshPoolIsTwenty ==
    state = new_game(state.num_players) => state.shared_walls_remaining = 20

\* C8: a move that produces a winner leaves current_player as it was.
C8_WinnerKeepsTurn ==
    [][state'.winner # None => state'.current_player = state.current_player]_vars

C8_Witness == state.winner # None /\ state.current_player = 1

\* C9: when the mover faces another pawn and the cell behind it is on the
\* board, not walled off and free, that cell is a pawn destination.
C9_StraightJumpOffered ==
    state.winner = None =>
      \A j \in Others(state) : \A d \in Deltas :
        (Faces(state, j, d) /\ JumpAvailable(state, d))
          => Step(Step(MoverCell(state), d), d) \in Destinations(state)

\* C10: a cell diagonal to the mover is a pawn destination exactly when it is
\* a free side-step beside a faced pawn whose straight jump is unavailable.
C10_SideStepsExactly ==
    state.winner = None =>
      \A x \in { c \in Cells : c[1] # MoverCell(state)[1] /\ c[2] # MoverCell(state)[2]
                               /\ Adjacent(c, <<MoverCell(state)[1], c[2]>>)
                               /\ Adjacent(c, <<c[1], MoverCell(state)[2]>>) } :
        (x \in Destinations(state))
          <=> \E j \in Others(state) : \E d \in Deltas :
                /\ Faces(state, j, d)
                /\ ~JumpAvailable(state, d)
                /\ SideStepFree(state, d, x)


\* The target line of player i in a game of n players, on position p.
GoalLine(n, i, p) ==
    CASE i = 0 -> p.row = 8
      [] i = 1 -> IF n = 2 THEN p.row = 0 ELSE p.col = 0
      [] i = 2 -> p.row = 0
      [] i = 3 -> p.col = 8

\* C19: new_game(n) raises and creates no state for every n outside {2, 4},
\* and creates a game of n players for n = 2 and n = 4.
C19_SetupFailsOutsideTwoFour ==
    [][IsRequest(state) =>
         IF state.requested \in {2, 4}
         THEN IsGame(state') /\ state'.num_players = state.requested
         ELSE ~IsGame(state') /\ state' = ValueError]_vars

C19_Witness == state = ValueError

\* C20: new_game puts the pawns on the edge midpoints (0,4), (8,4) for 2
\* players and (0,4), (4,8), (8,4), (4,0) for 4, with player 0 to move, no
\* winner, no wall, and no pawn on its own target line.
C20_FreshGameLayout ==
    [][(IsRequest(state) /\ IsGame(state')) =>
         /\ state'.pawns = IF state.requested = 2
                           THEN (0 :> [row |-> 0, col |-> 4]) @@ (1 :> [row |-> 8, col |-> 4])
                           ELSE (0 :> [row |-> 0, col |-> 4]) @@ (1 :> [row |-> 4, col |-> 8])
                                @@ (2 :> [row |-> 8, col |-> 4]) @@ (3 :> [row |-> 4, col |-> 0])
         /\ state'.current_player = 0
         /\ state'.winner = None
         /\ state'.walls = {}
         /\ \A i \in DOMAIN state'.pawns :
               ~GoalLine(state'.num_players, i, state'.pawns[i])]_vars

C20_Witness ==
    /\ IsGame(state)
    /\ state.num_players = 4
    /\ state.walls = {}
    /\ state.current_player = 0
    /\ state.pawns[1] = [row |-> 4, col |-> 8]
    /\ state.pawns[3] = [row |-> 4, col |-> 0]


\* The players whose pawn stands on its target line.
OnGoal(s) == { i \in DOMAIN s.pawns : GoalLine(s.num_players, i, s.pawns[i]) }

Lowest(S) == CHOOSE i \in S : \A j \in S : i <= j

\* C14: on a state with no winner, check_winner declares a winner exactly
\* when some pawn is on its target line, and the declared player is on its
\* own: row 8 for player 0, row 0 for player 2, column 8 for player 3, and
\* for player 1 row 0 with 2 players but column 0 with 4.
C14_GoalDependsOnPlayerCount ==
    state.winner = None =>
        LET w == check_winner(state).winner
        IN IF OnGoal(state) = {} THEN w = None ELSE w \in OnGoal(state)

C14_Witness ==
    /\ state.num_players = 4
    /\ state.winner = None
    /\ state.pawns[1].row = 0
    /\ state.pawns[1].col # 0
    /\ OnGoal(state) = {}
    /\ check_winner(state).winner = None

\* C15: on a state with no winner and several pawns on their target lines,
\* check_winner sets winner to the lowest index among them.
C15_LowestIndexWins ==
    (state.winner = None /\ OnGoal(state) # {}) =>
        check_winner(state).winner = Lowest(OnGoal(state))


\* C16: in every reachable state every pawn stands on a cell of the board,
\* and every pawn move in legal_moves leads to a cell of the board.
C16_PawnsStayOnBoard ==
    /\ \A i \in DOMAIN state.pawns : CellOf(state.pawns[i]) \in Cells
    /\ \A m \in Range(generate_pawn_moves(state)) :
          m \in legal_moves(state) => CellOf(m.to) \in Cells

\* The mover faces a pawn standing on the edge of the board, so the straight
\* jump would land outside, and still has a pawn move.
C16_Witness ==
    /\ state.winner = None
    /\ \E d \in Deltas :
          /\ Faces(state, 1 - state.current_player, d)
          /\ Step(Step(MoverCell(state), d), d) \notin Cells
    /\ \E m \in Range(generate_pawn_moves(state)) : m \in legal_moves(state)


\* C17: the shared pool never goes below zero in a state reached from
\* new_game through moves of legal_moves.
C17_PoolNeverNegative == state.shared_walls_remaining >= 0

\* The pool was emptied by a wall move.
C17_Witness ==
    /\ state.shared_walls_remaining = 0
    /\ state.walls \cap EndWalls # {}

\* C18: once the shared pool is at or below zero, legal_moves contains no
\* wall move.
C18_NoWallMoveOnEmptyPool ==
    state.shared_walls_remaining <= 0 =>
        LET moves == legal_moves(state)
        IN \A m \in WallMoveSpace : m \notin moves

\* The pool is empty while a wall would still pass every placement test,
\* and the player to move has a pawn move.
C18_Witness ==
    /\ state.shared_walls_remaining <= 0
    /\ state.winner = None
    /\ \E w \in EndWalls : WallOffered(state, w)
    /\ \E m \in Range(generate_pawn_moves(state)) : m \in legal_moves(state)


\* Two walls cover a common unit edge.
Overlap(w, x) == CoveredEdges(w) \cap CoveredEdges(x) # {}

\* The wall at the anchor of w in the other orientation.
Perpendicular(w) == <<w[1], w[2], ~w[3]>>

\* C11: no two placed walls cover the same unit edge, and no wall covering
\* an edge that a placed wall covers is offered by generate_wall_moves.
C11_NoEdgeCoveredTwice ==
    /\ \A w \in state.walls : \A x \in state.walls \ {w} : ~Overlap(w, x)
    /\ \A w \in WallCandidates :
          (\E x \in state.walls : Overlap(w, x))
              => WallMove(w) \notin generate_wall_moves(state)

\* H(3,0) is placed and H(3,1), one anchor to the right, is neither placed
\* nor crossed by a wall at its anchor.
C11_Witness ==
    /\ <<3, 0, TRUE>> \in state.walls
    /\ <<3, 1, TRUE>> \notin state.walls
    /\ <<3, 1, FALSE>> \notin state.walls
    /\ state.shared_walls_remaining > 0
    /\ state.winner = None
    /\ WallMove(<<3, 1, TRUE>>) \notin generate_wall_moves(state)

\* C12: no anchor carries both a horizontal and a vertical wall, and the
\* perpendicular counterpart of a placed wall is not offered by
\* generate_wall_moves.
C12_NoCrossing ==
    \A w \in state.walls :
        /\ Perpendicular(w) \notin state.walls
        /\ WallMove(Perpendicular(w)) \notin generate_wall_moves(state)

\* V(3,1) is placed, and H(3,1) at the same anchor overlaps no placed wall.
C12_Witness ==
    /\ <<3, 1, FALSE>> \in state.walls
    /\ \A x \in state.walls : ~Overlap(<<3, 1, TRUE>>, x)
    /\ state.shared_walls_remaining > 0
    /\ state.winner = None
    /\ WallMove(<<3, 1, TRUE>>) \notin generate_wall_moves(state)

\* C13: while walls are left in the pool, every candidate wall that is not
\* placed, crosses no placed wall, overlaps none, and leaves every player a
\* path to its own goal line is offered by generate_wall_moves.
C13_EveryAdmissibleWallOffered ==
    state.shared_walls_remaining > 0 =>
        \A w \in WallCandidates :
            ( /\ w \notin state.walls
              /\ Perpendicular(w) \notin state.walls
              /\ \A x \in state.walls : ~Overlap(w, x)
              /\ WallMove(w) \notin generate_wall_moves(state) )
                => ~AllHavePathToGoal([state EXCEPT !.walls = state.walls \cup {w}])


\* C21: when no other pawn stands on a cell orthogonally adjacent to the
\* mover's, the pawn destinations are exactly the orthogonal neighbours of
\* the mover's cell that are on the board and not walled off from it.
C21_PlainStepsExactly ==
    (state.winner = None
       /\ \A j \in Others(state) : ~Adjacent(CellOf(state.pawns[j]), MoverCell(state)))
      => Destinations(state) = OpenNeighbours(state.walls, MoverCell(state))

\* No pawn is next to the mover and a wall closes one side of its cell.
C21_Witness ==
    /\ state.winner = None
    /\ \A j \in Others(state) : ~Adjacent(CellOf(state.pawns[j]), MoverCell(state))
    /\ \E b \in Cells : Adjacent(b, MoverCell(state)) /\ EdgeCut(state.walls, MoverCell(state), b)
    /\ Destinations(state) # {}


\* C22: clone() leaves every existing state as it was and returns a state
\* equal to one of them in every field; afterwards adding or removing a wall
\* or replacing a pawn through one state changes the fields of no other.
C22_CloneIsIndependent ==
    [][ LET before == DOMAIN state.objects
            after == DOMAIN state'.objects
        IN IF after # before
           THEN /\ \A k \in before : View(state', k) = View(state, k)
                /\ \A c \in after \ before :
                      \E k \in before : View(state', c) = View(state, k)
           ELSE \A k \in before : \A j \in before \ {k} :
                    View(state', k) # View(state, k)
                        => View(state', j) = View(state, j) ]_vars

\* A state and its clone that have come to differ in walls and in pawns.
C22_Witness ==
    /\ "objects" \in DOMAIN state
    /\ Len(state.objects) >= 2
    /\ View(state, 1).walls # View(state, 2).walls
    /\ View(state, 1).pawns # View(state, 2).pawns
    /\ View(state, 1).walls # {}
    /\ View(state, 2).walls # {}


\* C23: attempt_move returns True, and applies the move, only for a move
\* equal to a legal move of the controller's state; when it returns False
\* the controller (state, turn counter, cached moves) is as before. The UI's
\* apply_agent_move changes something only for a move that is legal in the
\* UI's state, and then the new state is that move applied.
C23_OnlyLegalMovesApplied ==
    \A move \in HotMoves :
        LET c == state.controller
            r == attempt_move(c, move)
            u == apply_agent_move(state, move)
        IN /\ r.returned =>
                 /\ move \in legal_moves(c.state)
                 /\ r.controller.state = apply_move(c.state, move)
           /\ ~r.returned => r.controller = c
           /\ u # state =>
                 /\ move \in legal_moves(state.state)
                 /\ u.state = apply_move(state.state, move)
                 /\ u.controller.state = u.state

\* The controller holds the legal moves of a state with a wall on it: a pawn
\* move is accepted, the wall crossing the placed one is refused.
C23_Witness ==
    /\ "controller" \in DOMAIN state
    /\ state.controller._cached_moves # << >>
    /\ <<0, 0, TRUE>> \in state.controller.state.walls
    /\ ~attempt_move(state.controller, WallMove(<<0, 0, FALSE>>)).returned
    /\ \E move \in HotMoves :
          move.kind = "pawn" /\ attempt_move(state.controller, move).returned


\* C24: for a non-empty legal-move list, whatever the LLM answers,
\* choose_move raises nothing, can always go on until it has returned, and
\* what it returns is a member of the list.
C24_LLMReturnsLegalMove ==
    state.moves # << >> =>
        /\ state.pc # "raised"
        /\ state.pc = "done" => \E k \in DOMAIN state.moves : state.returned = state.moves[k]
        /\ state.pc # "done" => ENABLED NextLLM
        /\ state.calls <= state.max_attempts

\* Every attempt was used up on answers that name no move of the list, and
\* a move was returned all the same.
C24_Witness ==
    /\ "calls" \in DOMAIN state
    /\ state.pc = "done"
    /\ state.max_attempts >= 2
    /\ state.calls = state.max_attempts
    /\ \E k \in DOMAIN state.moves : state.returned = state.moves[k] /\ state.returned.kind = "wall"


\* The moves whose payload does not match their tag: no payload, the payload
\* of the other tag, or both payloads.
MalformedMoves ==
    { Move("pawn", NoPosition, NoWall), Move("wall", NoPosition, NoWall),
      Move("pawn", NoPosition, <<0, 0, TRUE>>), Move("wall", [row |-> 1, col |-> 4], NoWall),
      Move("pawn", [row |-> 1, col |-> 4], <<0, 0, TRUE>>) }

\* C25: a move whose payload does not match its tag is not applied: applying
\* it leaves the state as it is, the turn included.
C25_MalformedMoveChangesNothing ==
    \A m \in MalformedMoves : apply_move(state, m) = state


\* C26: the blocked-edge map holds direction d out of cell a exactly when a
\* wall covers the edge between a and a+d: for a horizontal wall at (r,c) the
\* edges (r,c)-(r+1,c) and (r,c+1)-(r+1,c+1), for a vertical one the edges
\* (r,c)-(r,c+1) and (r+1,c)-(r+1,c+1); and d is blocked out of a exactly
\* when -d is blocked out of a+d.
C26_BlockedMapIsTheWalls ==
    LET blocked == build_blocked(state.walls)
    IN /\ \A e \in blocked :
             /\ e[1] \in Cells
             /\ e[2] \in Deltas
             /\ EdgeCut(state.walls, e[1], Step(e[1], e[2]))
       /\ \A a \in Cells : \A d \in Deltas :
             /\ EdgeCut(state.walls, a, Step(a, d)) => is_blocked(blocked, a[1], a[2], d[1], d[2])
             /\ is_blocked(blocked, a[1], a[2], d[1], d[2])
                  <=> is_blocked(blocked, a[1] + d[1], a[2] + d[2], 0 - d[1], 0 - d[2])

\* A horizontal and a vertical wall are on the board.
C26_Witness ==
    /\ "walls" \in DOMAIN state
    /\ \E w \in state.walls : w[3]
    /\ \E w \in state.walls : ~w[3]
    /\ build_blocked(state.walls) # {}


\* C27: every pawn destination is reached across open edges only: it is a
\* neighbour of the mover's cell with no wall between, or it is reached over
\* a pawn on a neighbouring cell, with no wall between the mover and that
\* pawn and none between that pawn and the destination.
C27_NoMoveThroughWall ==
    state.winner = None =>
      \A x \in Destinations(state) :
        \/ Adjacent(MoverCell(state), x) /\ ~EdgeCut(state.walls, MoverCell(state), x)
        \/ \E j \in Others(state) :
              LET over == CellOf(state.pawns[j])
              IN /\ Adjacent(MoverCell(state), over)
                 /\ Adjacent(over, x)
                 /\ x # MoverCell(state)
                 /\ ~EdgeCut(state.walls, MoverCell(state), over)
                 /\ ~EdgeCut(state.walls, over, x)

\* The mover faces a pawn that has a wall right behind it, and has pawn moves.
C27_Witness ==
    /\ state.winner = None
    /\ \E d \in Deltas :
          /\ Faces(state, 1 - state.current_player, d)
          /\ Step(Step(MoverCell(state), d), d) \in Cells
          /\ EdgeCut(state.walls, Step(MoverCell(state), d), Step(Step(MoverCell(state), d), d))
    /\ Destinations(state) # {}


\* C28: the connectivity check answers, for every player, whether the board
\* with its walls joins the player's pawn to a cell of the line on which
\* check_winner makes that player win in this game (the pawn's own cell
\* included).
C28_PathCheckUsesOwnGoal ==
    \A p \in DOMAIN state.pawns :
        _player_has_path(state, build_blocked(state.walls), p) <=> HasPathToGoal(state, p)


\* C29: in every state reached from a fresh game through legal moves, pawn
\* moves and wall moves alike, every player has a wall-respecting path from
\* its pawn to its own goal line.
C29_EveryPlayerKeepsPath == AllHavePathToGoal(state)


\* C30: in every reachable state with a winner, the winner is the player
\* whose move ended the game, which is the player current_player names.
C30_WinnerIsTheMover ==
    state.winner # None =>
        /\ state.winner = state.current_player
        /\ OnGoal(state) = {state.current_player}

\* Player 0 has ended a 4-player game on row 8.
C30_Witness ==
    /\ state.num_players = 4
    /\ state.winner = 0
    /\ state.current_player = 0
    /\ state.pawns[0].row = 8


\* C31: apply_move, legal_moves and generate_wall_moves leave every state
\* that exists, their argument included, as it was in every field;
\* apply_move returns a new state, which is the move applied to the
\* argument, and the other two leave no state behind.
C31_ArgumentsUnchanged ==
    [][ LET before == state.heap
            after == state'.heap
        IN /\ \A k \in DOMAIN before.objects : View(after, k) = View(before, k)
           /\ IF state'.last_call = "apply_move"
              THEN /\ Len(after.objects) = Len(before.objects) + 1
                   /\ \E k \in DOMAIN before.objects :
                       \E m \in PawnMoveSpace \cup WallMoveSpace :
                          View(after, Len(after.objects)) = apply_move(View(before, k), m)
              ELSE after = before ]_vars

\* A state with a wall on it has been given to generate_wall_moves, and a
\* state made from it by a pawn move exists beside it.
C31_Witness ==
    /\ "heap" \in DOMAIN state
    /\ state.last_call = "generate_wall_moves"
    /\ \E k \in DOMAIN state.heap.objects : \E j \in DOMAIN state.heap.objects :
          /\ View(state.heap, k).walls # {}
          /\ View(state.heap, j).walls = View(state.heap, k).walls
          /\ View(state.heap, j).pawns # View(state.heap, k).pawns


\* C32: applying a legal pawn move puts the mover's pawn on the destination
\* and leaves walls, pool, player count and every other pawn as they were;
\* applying a legal wall move leaves every pawn, the player count and the
\* winner as they were.
C32_MoveChangesOnlyItsOwnFields ==
    LET moves == legal_moves(state)
    IN /\ \A m \in Range(generate_pawn_moves(state)) :
              m \in moves =>
                 LET after == apply_move(state, m)
                 IN /\ after.pawns = [state.pawns EXCEPT ![state.current_player] = m.to]
                    /\ after.walls = state.walls
                    /\ after.shared_walls_remaining = state.shared_walls_remaining
                    /\ after.num_players = state.num_players
       /\ \A w \in PlayWalls :
              WallMove(w) \in moves =>
                 LET after == apply_move(state, WallMove(w))
                 IN /\ after.pawns = state.pawns
                    /\ after.num_players = state.num_players
                    /\ after.winner = state.winner
                    /\ after.walls # state.walls
                    /\ after.shared_walls_remaining # state.shared_walls_remaining

\* A wall stands, player 0 has left its start cell, and both a pawn move and
\* a wall move are still legal.
C32_Witness ==
    /\ state.walls # {}
    /\ state.pawns[0] # new_game(state.num_players).pawns[0]
    /\ state.winner = None
    /\ state.shared_walls_remaining > 0
    /\ \E w \in PlayWalls : WallMove(w) \in legal_moves(state)


\* C33: while the controller holds a state with a winner, attempt_move
\* returns False for every move and leaves the controller, its state and its
\* turn counter included, as it was.
C33_NoMoveAfterTheEnd ==
    LET c == state.controller
    IN c.state.winner # None =>
          \A move \in HotMoves :
             LET attempt == attempt_move(c, move)
             IN /\ attempt.returned = FALSE
                /\ attempt.controller.state = c.state
                /\ attempt.controller.turn = c.turn

\* The controller holds a won game that it reached by accepted moves and
\* has refreshed its list on.
C33_Witness ==
    /\ state.controller.state.winner # None
    /\ state.controller._cached_moves = << state.controller.state >>
    /\ state.controller.turn > 0


\* C34: the list generate_pawn_moves returns holds no two moves with the
\* same destination, and the list legal_moves returns holds no two equal
\* moves.
C34_NoDuplicateMoves ==
    LET pawn_moves == generate_pawn_moves(state)
        moves == legal_moves_list(state)
    IN /\ \A i, j \in DOMAIN pawn_moves : i # j => pawn_moves[i].to # pawn_moves[j].to
       /\ \A i, j \in DOMAIN moves : i # j => moves[i] # moves[j]
       /\ Range(moves) = legal_moves(state)

\* The mover stands next to the other pawn with a wall behind it: its list
\* holds a move to a diagonal cell, and wall moves besides.
C34_Witness ==
    /\ state.walls # {}
    /\ generate_wall_moves_list(state) # << >>
    /\ \E m \in Range(generate_pawn_moves(state)) :
          LET me == state.pawns[state.current_player]
          IN m.to.row # me.row /\ m.to.col # me.col


\* C35: an attempt_move call adds one to the turn counter when the move is
\* accepted and does not end the game, and leaves the counter as it was
\* when the move is rejected or wins; a rejected move changes nothing.
C35_TurnCountsAcceptedMoves ==
    LET c == state.controller
    IN \A move \in HotMoves :
          LET attempt == attempt_move(c, move)
              after == attempt.controller
          IN /\ after.turn = IF attempt.returned /\ after.state.winner = None
                             THEN c.turn + 1 ELSE c.turn
             /\ ~attempt.returned => after = c

\* After several counted moves the controller is offered a move that wins,
\* a move that does not, and a move it rejects.
C35_Witness ==
    LET c == state.controller
    IN /\ c.turn >= 2
       /\ \E move \in HotMoves :
             /\ attempt_move(c, move).returned
             /\ attempt_move(c, move).controller.state.winner # None
       /\ \E move \in HotMoves :
             /\ attempt_move(c, move).returned
             /\ attempt_move(c, move).controller.state.winner = None
       /\ \E move \in HotMoves : ~attempt_move(c, move).returned


\* The decimal numerals below ten.
Numerals == << "0", "1", "2", "3", "4", "5", "6", "7", "8", "9" >>

\* The response is a JSON object whose move_id reads "Mk".
Names(raw, k) == raw.kind = "json" /\ strip(raw.move_id) = << "M", Numerals[k + 1] >>

\* What an attempt does, for every response: one more call; a failed call
\* leads to the fallback, a response naming a move of the list returns that
\* move, any other response uses up the attempt and the loop goes on.
C36_AttemptHandled ==
    (state.pc = "loop" /\ state.attempt < state.max_attempts) =>
        \A raw \in Responses :
           LET after == LoopBody(state, raw)
               valid == { k \in 0..(Len(state.moves) - 1) : Names(raw, k) }
           IN /\ after.calls = state.calls + 1
              /\ IF raw = NoResponse THEN after.pc = "fallback"
                 ELSE IF valid # {}
                 THEN after.pc = "done" /\ \A k \in valid : after.returned = state.moves[k + 1]
                 ELSE after.pc = "loop" /\ after.attempt = state.attempt + 1

\* C36: choose_move calls the LLM at most max_attempts times, makes no call
\* after a failed call or after it has returned, handles every response as
\* C36_AttemptHandled says, and comes to an end.
C36_BoundedAttempts ==
    /\ [](state.calls <= state.max_attempts /\ state.calls = state.attempt)
    /\ [](state.pc # "loop" => ~ENABLED LLMAttempt)
    /\ []C36_AttemptHandled
    /\ <>(state.pc \in {"done", "raised"})

\* Two responses were of no use, the third named a move of the list, and
\* that move was returned.
C36_Witness ==
    /\ "calls" \in DOMAIN state
    /\ state.pc = "done"
    /\ state.calls = 3
    /\ Len(state.moves) >= 2
    /\ state.returned = state.moves[2]
    /\ state.returned.kind = "pawn"


\* The places of the pawn moves in a list.
PawnPlaces(moves) == { k \in DOMAIN moves : moves[k].kind = "pawn" }

\* C37: when choose_move returns after a failed call or after its last
\* attempt went by without a valid id, it returns the pawn move that comes
\* first in the list if the list holds one, and otherwise a move of the list.
C37_FallbackPrefersFirstPawnMove ==
    [][ (/\ state'.pc = "done"
         /\ \/ state.pc = "fallback"
            \/ state.pc = "loop" /\ state.attempt >= state.max_attempts)
        => IF PawnPlaces(state.moves) # {}
           THEN \E k \in PawnPlaces(state.moves) :
                   /\ \A j \in PawnPlaces(state.moves) : k <= j
                   /\ state'.returned = state.moves[k]
           ELSE \E k \in DOMAIN state.moves : state'.returned = state.moves[k] ]_vars

\* An agent that makes no attempt has returned the first pawn move of a
\* list that holds another pawn move and wall moves as well.
C37_Witness ==
    /\ "calls" \in DOMAIN state
    /\ state.pc = "done"
    /\ state.max_attempts = 0
    /\ Cardinality(PawnPlaces(state.moves)) = 2
    /\ Len(state.moves) = 4
    /\ state.returned = state.moves[1]


====
